---- MODULE Spec2Model ----
(***************************************************************************)
(* A model of nexpose_client.py: the message classes (Element and its      *)
(* subclasses), their serialization, the transport (Request), and the      *)
(* client (NexposeClient: login, logout, _send, the facade methods and    *)
(* its use as a context manager).                                          *)
(*                                                                         *)
(* Python values: every attribute value and text is a TLA+ string; None is *)
(* the distinguished value None below, which is the text of no value.  An  *)
(* optional value (a result that may be missing, an exception that may not *)
(* have been raised) is a sequence of length 0 or 1, or the empty string   *)
(* for "no exception".  A dict is a function from its keys.                *)
(***************************************************************************)
EXTENDS Integers, Sequences, FiniteSets, TLC

VARIABLES session_id, method, calls, raised, scope, bodyError, scopeResult

vars == <<session_id, method, calls, raised, scope, bodyError, scopeResult>>

\* ------------------------------------------------------------ constants

None == "<None>"

VERSION_1_1 == "1.1"

VERSION_1_2 == "1.2"

\* The arguments of random.randint in _send.
RandLo == 1

RandHi == 1000

\* How many of randint's values a run draws: from both ends of the range, the
\* low end first.
NumTokens == 2

\* ------------------------------------------------------------ helpers

EmptyDict == [k \in {} |-> None]

\* d[k] = v on a dict.
SetItem(d, k, v) == [x \in (DOMAIN d) \cup {k} |-> IF x = k THEN v ELSE d[x]]

Digit(d) == CASE d = 0 -> "0" [] d = 1 -> "1" [] d = 2 -> "2" [] d = 3 -> "3"
              [] d = 4 -> "4" [] d = 5 -> "5" [] d = 6 -> "6" [] d = 7 -> "7"
              [] d = 8 -> "8" [] d = 9 -> "9"

RECURSIVE str(_)
\* str(n) of an int n >= 0: its decimal digits.
str(n) == IF n < 10 THEN Digit(n) ELSE str(n \div 10) \o Digit(n % 10)

\* random.randint(a, b): any integer of a..b.
randint(a, b) == a .. b

\* The draws of randint(a, b) a run explores: NumTokens values, half of them
\* from each end of the range.
Draws(a, b) ==
    ((a .. a + ((NumTokens + 1) \div 2) - 1) \cup (b - (NumTokens \div 2) + 1 .. b))
        \cap randint(a, b)

\* The session ids the server issues.
SessionIds == {"s1", "s2"}

\* ------------------------------------------------------------ messages

\* An instance of Element or of a subclass: the class attributes request_tag and
\* response_tag, whether it is a SessionElement, and the instance's two dicts.
Element(request_tag, response_tag, session, attr_dict, inner_elements) ==
    [request_tag |-> request_tag, response_tag |-> response_tag, session |-> session,
     attr_dict |-> attr_dict, inner_elements |-> inner_elements]

LoginElement(login, password) ==
    Element("LoginRequest", "LoginResponse", FALSE,
            [k \in {"user-id", "password"} |-> IF k = "user-id" THEN login ELSE password],
            EmptyDict)

LogoutElement == Element("LogoutRequest", "LogoutResponse", TRUE, EmptyDict, EmptyDict)

ReportListingElement ==
    Element("ReportListingRequest", "ReportListingResponse", TRUE, EmptyDict, EmptyDict)

ReportConfigElement(config_id) ==
    Element("ReportConfigRequest", "ReportConfigResponse", TRUE,
            [k \in {"reportcfg-id"} |-> config_id], EmptyDict)

ReportTemplateListingElement ==
    Element("ReportTemplateListingRequest", "ReportTemplateListingResponse", TRUE,
            EmptyDict, EmptyDict)

ReportHistoryElement(config_id) ==
    Element("ReportHistoryRequest", "ReportHistoryResponse", TRUE,
            [k \in {"reportcfg-id"} |-> config_id], EmptyDict)

VulnerabilityListingElement ==
    Element("VulnerabilityListingRequest", "VulnerabilityListingResponse", TRUE,
            EmptyDict, EmptyDict)

VulnerabilityDetailsElement(vuln_id) ==
    Element("VulnerabilityDetailsRequest", "VulnerabilityDetailsResponse", TRUE,
            [k \in {"vuln-id"} |-> vuln_id], EmptyDict)

VulnerabilityExceptionCreateElement(vuln_id, reason, scope_, device_id, comment) ==
    Element("VulnerabilityExceptionCreateRequest", "VulnerabilityExceptionCreateResponse", TRUE,
            [k \in {"vuln-id", "reason", "scope", "device-id"} |->
                CASE k = "vuln-id" -> vuln_id [] k = "reason" -> reason
                  [] k = "scope" -> scope_ [] k = "device-id" -> device_id],
            [k \in {"comment"} |-> comment])

VulnerabilityExceptionApproveElement(exception_id, comment) ==
    Element("VulnerabilityExceptionApproveRequest", "VulnerabilityExceptionApproveResponse", TRUE,
            [k \in {"exception-id"} |-> exception_id],
            [k \in {"comment"} |-> comment])

\* Element.__str__ with an attribute whose value is None left out instead of
\* making the serializer raise.
Element_str_omits_none(elem) ==
    <<[tag |-> elem.request_tag,
       attrib |-> [k \in {x \in DOMAIN elem.attr_dict : elem.attr_dict[x] # None} |->
                     elem.attr_dict[k]],
       children |-> [t \in DOMAIN elem.inner_elements |->
                       IF elem.inner_elements[t] = None THEN ""
                       ELSE elem.inner_elements[t]]]>>

\* Element.__str__: the XML text of the message, as the element it spells:
\* [tag, attrib, children], children a map from a child's tag to its text, ""
\* for an empty child (<comment />).  etree.tostring raises TypeError ("cannot
\* serialize None") on an attribute whose value is None, and writes a child whose
\* text is None as an empty element.  The result is <<xml>>, or <<>> when it raises.
Element_str(elem) ==
    IF \E k \in DOMAIN elem.attr_dict : elem.attr_dict[k] = None
    THEN <<>>
    ELSE <<[tag |-> elem.request_tag,
            attrib |-> elem.attr_dict,
            children |-> [t \in DOMAIN elem.inner_elements |->
                            IF elem.inner_elements[t] = None THEN ""
                            ELSE elem.inner_elements[t]]]>>

\* ------------------------------------------------------------ transport

\* What the network does with one POST: session.post raises, or the server's
\* bytes, which are a well-formed document (xml = <<tree>>) or not (xml = <<>>).
ConnectionError == [kind |-> "raise", xml |-> <<>>]

NotXML == [kind |-> "bytes", xml |-> <<>>]

Document(tag, attrib) == [kind |-> "bytes", xml |-> <<[tag |-> tag, attrib |-> attrib]>>]

\* The attributes of a response: session-id and sync-id, each present or not.
RespAttrib(sid, sync) ==
    [k \in {x \in {"session-id"} : sid # None} \cup {x \in {"sync-id"} : sync # None} |->
        IF k = "session-id" THEN sid ELSE sync]

\* A sync-id that is the text of another token than sync_id.
OtherToken(sync_id) == IF sync_id = str(RandLo) THEN str(RandHi) ELSE str(RandLo)

\* The answers the network may give to elem sent with token sync_id.
NetAnswers(elem, sync_id) ==
    {ConnectionError, NotXML} \cup
    {Document(elem.response_tag, RespAttrib(sid, sync)) :
        sid \in IF elem.session THEN {None} ELSE {None} \cup SessionIds,
        sync \in IF elem.session
                 THEN {None, sync_id, "0" \o sync_id, OtherToken(sync_id)}
                 ELSE {None, OtherToken(sync_id)}} \cup
    {Document("Failure", RespAttrib(None, sync)) : sync \in {None, sync_id}}

\* Request._make_request: one session.post to the endpoint of the protocol.
Request_make_request(protocol, data, net) ==
    [posts |-> <<[url |-> "/api/" \o protocol \o "/xml", data |-> data]>>,
     raised |-> IF net.kind = "raise" THEN "RequestException" ELSE "",
     content |-> net.xml]

\* Request.send that posts a second time when the first POST raised.
Request_send_retry(data, protocol, net) ==
    LET r == Request_make_request(protocol, data, net)
    IN  IF r.raised # ""
        THEN [posts |-> r.posts \o r.posts, raised |-> r.raised, response |-> <<>>]
        ELSE IF r.content = <<>>
             THEN [posts |-> r.posts, raised |-> "ParseError", response |-> <<>>]
             ELSE [posts |-> r.posts, raised |-> "", response |-> r.content]

\* Request.send: the POST, then etree.XML of the content.
Request_send(data, protocol, net) ==
    LET r == Request_make_request(protocol, data, net)
    IN  IF r.raised # "" THEN [posts |-> r.posts, raised |-> r.raised, response |-> <<>>]
        ELSE IF r.content = <<>>
             THEN [posts |-> r.posts, raised |-> "ParseError", response |-> <<>>]
             ELSE [posts |-> r.posts, raised |-> "", response |-> r.content]

\* ------------------------------------------------------------ client

\* The injection with dict.setdefault: an attribute the message already carries
\* is kept.
Inject_setdefault(elem, self_session_id, sync_id) ==
    IF elem.session
    THEN [elem EXCEPT !.attr_dict =
            LET a == IF "session-id" \in DOMAIN @ THEN @
                     ELSE SetItem(@, "session-id", self_session_id)
            IN  IF "sync-id" \in DOMAIN a THEN a ELSE SetItem(a, "sync-id", sync_id)]
    ELSE elem

\* _send, lines 283-285: a SessionElement gets the client's session id and the
\* token written into its attr_dict (the message object itself is changed).
Inject(elem, self_session_id, sync_id) ==
    IF elem.session
    THEN [elem EXCEPT !.attr_dict =
            SetItem(SetItem(@, "session-id", self_session_id), "sync-id", sync_id)]
    ELSE elem

\* The check of the root tag with == for !=.
TagCheck_inverted(response, elem) ==
    IF response.tag = elem.response_tag THEN "WrongAPIAnswer" ELSE ""

\* _send, lines 288-290: the exception the check of the root tag raises, "" if none.
TagCheck(response, elem) ==
    IF response.tag # elem.response_tag THEN "WrongAPIAnswer" ELSE ""

\* The check of the sync-id made under every protocol.
SyncCheck_any_protocol(protocol, elem, response, sync_id) ==
    IF elem.session
    THEN IF "sync-id" \notin DOMAIN response.attrib THEN "KeyError"
         ELSE IF response.attrib["sync-id"] # sync_id THEN "DifferentSyncId"
         ELSE ""
    ELSE ""

\* _send, lines 292-295: the exception the check of the sync-id raises, "" if
\* none.  `and` evaluates response.attrib['sync-id'] only for the protocol 1.2 and
\* a SessionElement, and the lookup raises KeyError when the attribute is missing.
SyncCheck(protocol, elem, response, sync_id) ==
    IF protocol = VERSION_1_2 /\ elem.session
    THEN IF "sync-id" \notin DOMAIN response.attrib THEN "KeyError"
         ELSE IF response.attrib["sync-id"] # sync_id THEN "DifferentSyncId"
         ELSE ""
    ELSE ""

\* NexposeClient._send with the token n drawn and the network answering net: the
\* message as given and as _send leaves it, the token, the session id it read, the text it
\* serialized (data), the requests handed to the transport (posts), the answer
\* the network gave (net, none when nothing was posted), the exception raised
\* ("" if none) and the response returned.
_send(self_session_id, elem, protocol, n, net) ==
    LET sync_id == str(n)
        e == Inject(elem, self_session_id, sync_id)
        data == Element_str(e)
        base == [given |-> elem, elem |-> e, protocol |-> protocol, sync_id |-> sync_id,
                 session_id |-> self_session_id, data |-> data, posts |-> <<>>,
                 net |-> <<>>, raised |-> "", returned |-> <<>>]
    IN  IF data = <<>> THEN [base EXCEPT !.raised = "TypeError"]
        ELSE LET r == Request_send(data[1], protocol, net)
                 sent == [base EXCEPT !.posts = r.posts, !.net = <<net>>]
             IN  IF r.raised # "" THEN [sent EXCEPT !.raised = r.raised]
                 ELSE IF TagCheck(r.response[1], e) # ""
                      THEN [sent EXCEPT !.raised = TagCheck(r.response[1], e)]
                 ELSE IF SyncCheck(protocol, e, r.response[1], sync_id) # ""
                      THEN [sent EXCEPT !.raised = SyncCheck(protocol, e, r.response[1], sync_id)]
                 ELSE [sent EXCEPT !.returned = r.response]

\* login that forgets the session id it held when the exchange fails.
login_clears_on_failure(self_session_id, username, password, n, net) ==
    LET c == _send(self_session_id, LoginElement(username, password), VERSION_1_2, n, net)
    IN  IF c.raised # ""
        THEN [calls |-> <<c>>, raised |-> c.raised, session_id |-> None]
        ELSE IF "session-id" \notin DOMAIN c.returned[1].attrib
             THEN [calls |-> <<c>>, raised |-> "KeyError", session_id |-> None]
             ELSE [calls |-> <<c>>, raised |-> "",
                   session_id |-> c.returned[1].attrib["session-id"]]

\* NexposeClient.login: one _send of a LoginElement, then the session id is set
\* from the response; the lookup of session-id raises KeyError when it is missing.
\* The result of a method: the _send calls it made, the exception it raised and
\* the client's session id after it.
login(self_session_id, username, password, n, net) ==
    LET c == _send(self_session_id, LoginElement(username, password), VERSION_1_2, n, net)
    IN  IF c.raised # ""
        THEN [calls |-> <<c>>, raised |-> c.raised, session_id |-> self_session_id]
        ELSE IF "session-id" \notin DOMAIN c.returned[1].attrib
             THEN [calls |-> <<c>>, raised |-> "KeyError", session_id |-> self_session_id]
             ELSE [calls |-> <<c>>, raised |-> "",
                   session_id |-> c.returned[1].attrib["session-id"]]

\* logout that clears the client's session id once the exchange succeeded.
logout_clears(self_session_id, n, net) ==
    LET c == _send(self_session_id, LogoutElement, VERSION_1_2, n, net)
    IN  [calls |-> <<c>>, raised |-> c.raised,
         session_id |-> IF c.raised = "" THEN None ELSE self_session_id]

\* NexposeClient.logout: one _send of a LogoutElement.
logout(self_session_id, n, net) ==
    LET c == _send(self_session_id, LogoutElement, VERSION_1_2, n, net)
    IN  [calls |-> <<c>>, raised |-> c.raised, session_id |-> self_session_id]

\* NexposeClient.__enter__: login.
enter(self_session_id, username, password, n, net) ==
    login(self_session_id, username, password, n, net)

\* __exit__ that logs out only when the body raised nothing.
exit_unless_raised(self_session_id, body, n, net) ==
    IF body # ""
    THEN [calls |-> <<>>, raised |-> "", session_id |-> self_session_id]
    ELSE logout(self_session_id, n, net)

\* __exit__ that logs out as a best effort: what logout raises is caught.
exit_swallows(self_session_id, body, n, net) ==
    [logout(self_session_id, n, net) EXCEPT !.raised = ""]

\* NexposeClient.__exit__: logout, whatever exc_type is (body is the exception
\* the body raised, "" if none); it returns None.
exit(self_session_id, body, n, net) ==
    logout(self_session_id, n, net)

\* The with statement around the client: the exception it ends with, "ok" if
\* none.  An exception raised by __exit__ replaces the body's; __exit__ returns
\* None, so the body's exception is raised again.
WithResult(body, exit_raised) ==
    IF exit_raised # "" THEN exit_raised
    ELSE IF body # "" THEN body
    ELSE "ok"

\* The facade methods that send a SessionElement, each the element it builds and
\* the protocol it passes to _send.
Facade ==
    {[name |-> "vulnerability_listing", elem |-> VulnerabilityListingElement,
      protocol |-> VERSION_1_2],
     [name |-> "vulnerability_details", elem |-> VulnerabilityDetailsElement("v1"),
      protocol |-> VERSION_1_2],
     [name |-> "report_listing", elem |-> ReportListingElement, protocol |-> VERSION_1_1],
     [name |-> "report_config", elem |-> ReportConfigElement("10"),
      protocol |-> VERSION_1_1],
     [name |-> "report_template_listing", elem |-> ReportTemplateListingElement,
      protocol |-> VERSION_1_1],
     [name |-> "report_history", elem |-> ReportHistoryElement("10"),
      protocol |-> VERSION_1_1]}
    \cup {[name |-> "create_exception_for_device",
           elem |-> VulnerabilityExceptionCreateElement("v1", "Other", "All Instances", d, c),
           protocol |-> VERSION_1_2] : d \in {None, "d1"}, c \in {None, "note"}}
    \cup {[name |-> "approve_exception",
           elem |-> VulnerabilityExceptionApproveElement("99", c),
           protocol |-> VERSION_1_2] : c \in {None, "note"}}

\* A facade method: one _send of its element.
facade(self_session_id, m, n, net) ==
    LET c == _send(self_session_id, m.elem, m.protocol, n, net)
    IN  [calls |-> <<c>>, raised |-> c.raised, session_id |-> self_session_id]

\* ------------------------------------------------------------ the state machine

\* session_id: NexposeClient.session_id.  method: the latest method called on the
\* client, calls: the _send calls it made, raised: the exception it raised ("" if
\* none).  scope: where the caller is with respect to a with statement around the
\* client: "out" (none entered), "body" (inside one), "raised" (the body raised,
\* __exit__ is due), "closed" (__exit__ has run), "refused" (__enter__ raised).
\* bodyError: the exception the body raised.  scopeResult: how the with statement
\* ended.

Init ==
    /\ session_id = None
    /\ method = ""
    /\ calls = <<>>
    /\ raised = ""
    /\ scope = "out"
    /\ bodyError = ""
    /\ scopeResult = ""

\* The caller's state after a method that raised `raised`: inside a with body an
\* exception leaves the body.  r is the method's result.
AfterCall(name, r) ==
    /\ method' = name
    /\ calls' = r.calls
    /\ raised' = r.raised
    /\ session_id' = r.session_id
    /\ scope' = IF scope = "body" /\ r.raised # "" THEN "raised" ELSE scope
    /\ bodyError' = IF scope = "body" THEN r.raised ELSE bodyError
    /\ UNCHANGED scopeResult

Login ==
    /\ scope \in {"out", "body"}
    /\ \E n \in Draws(RandLo, RandHi) :
         \E net \in NetAnswers(LoginElement("admin", "secret"), str(n)) :
           AfterCall("login", login(session_id, "admin", "secret", n, net))

Logout ==
    /\ scope \in {"out", "body"}
    /\ \E n \in Draws(RandLo, RandHi) :
         \E net \in NetAnswers(LogoutElement, str(n)) :
           AfterCall("logout", logout(session_id, n, net))

Call ==
    /\ scope \in {"out", "body"}
    /\ \E m \in Facade :
         \E n \in Draws(RandLo, RandHi) :
           \E net \in NetAnswers(m.elem, str(n)) :
             AfterCall(m.name, facade(session_id, m, n, net))

\* _send called again with the message object of the latest call, under either
\* protocol.
Resend ==
    /\ scope \in {"out", "body"}
    /\ calls # <<>>
    /\ \E p \in {VERSION_1_1, VERSION_1_2} :
         \E n \in Draws(RandLo, RandHi) :
           \E net \in NetAnswers(calls[1].elem, str(n)) :
             LET c == _send(session_id, calls[1].elem, p, n, net)
             IN  AfterCall("_send", [calls |-> <<c>>, raised |-> c.raised,
                                     session_id |-> session_id])

\* with client: __enter__ runs; the body is entered when it returns.
Enter ==
    /\ scope \in {"out", "closed", "refused"}
    /\ \E n \in Draws(RandLo, RandHi) :
         \E net \in NetAnswers(LoginElement("admin", "secret"), str(n)) :
           LET r == enter(session_id, "admin", "secret", n, net)
           IN  /\ method' = "__enter__"
               /\ session_id' = r.session_id
               /\ calls' = r.calls
               /\ raised' = r.raised
               /\ scope' = IF r.raised = "" THEN "body" ELSE "refused"
               /\ bodyError' = ""
               /\ scopeResult' = r.raised

\* The body ends, normally or by the exception it raised: __exit__ runs.
Exit ==
    /\ scope \in {"body", "raised"}
    /\ \E n \in Draws(RandLo, RandHi) :
         \E net \in NetAnswers(LogoutElement, str(n)) :
           LET body == IF scope = "raised" THEN bodyError ELSE ""
               r == exit(session_id, body, n, net)
           IN  /\ method' = "__exit__"
               /\ session_id' = r.session_id
               /\ calls' = r.calls
               /\ raised' = r.raised
               /\ scope' = "closed"
               /\ bodyError' = body
               /\ scopeResult' = WithResult(body, r.raised)

Next == Login \/ Logout \/ Call \/ Resend \/ Enter \/ Exit

Spec == Init /\ [][Next]_vars

\* ------------------------------------------------------------ properties

\* The conditions of the specification, by the exception the code raises for
\* each: line 289 (ProtocolMismatch), line 293 (SyncMismatch), session.post
\* (TransportFailure), etree.XML (MalformedResponse).  No line of the code raises
\* a condition of its own for a missing session id.
ProtocolMismatch == "WrongAPIAnswer"

SyncMismatch == "DifferentSyncId"

TransportFailure == "RequestException"

MalformedResponse == "ParseError"

NotAuthenticated == "NotAuthenticated"

\* Call c was answered by a well-formed document.
Answered(c) == c.net # <<>> /\ c.net[1].xml # <<>>

\* The document that answered call c.
Answer(c) == c.net[1].xml[1]

\* Call c is a session-scoped message sent while the client held no session id.
NoSession(c) == c.elem.session /\ c.session_id = None

\* C1 as stated: a session-scoped message sent while the client holds no session
\* id makes send fail with NotAuthenticated, under both protocols.
C1_NotAuthenticated ==
    \A i \in 1 .. Len(calls) :
        NoSession(calls[i]) => calls[i].raised = NotAuthenticated

\* C1 as amended: a session-scoped message sent while the client holds no session
\* id makes send fail, under both protocols, with the serializer's TypeError for
\* the None session-id attribute; nothing is posted and nothing is returned.
C1_NoSessionFails ==
    \A i \in 1 .. Len(calls) :
        NoSession(calls[i]) =>
            /\ calls[i].raised = "TypeError"
            /\ calls[i].posts = <<>>
            /\ calls[i].returned = <<>>
            /\ raised = "TypeError"

\* C1, reached: a report listing sent under protocol 1.1 before any login.
C1_Witness ==
    /\ calls # <<>>
    /\ NoSession(calls[1])
    /\ calls[1].protocol = VERSION_1_1
    /\ calls[1].elem.request_tag = "ReportListingRequest"
    /\ calls[1].raised = "TypeError"

\* C2: send returns the response only if its root tag equals the message's
\* response_tag; a response with another root tag makes send fail with
\* ProtocolMismatch and is not returned.
C2_ResponseTag ==
    \A i \in 1 .. Len(calls) :
        LET c == calls[i]
        IN  /\ c.returned # <<>> =>
                /\ Answered(c)
                /\ c.returned[1] = Answer(c)
                /\ c.returned[1].tag = c.elem.response_tag
            /\ (Answered(c) /\ Answer(c).tag # c.elem.response_tag) =>
                /\ c.raised = ProtocolMismatch
                /\ c.returned = <<>>

\* C2, reached: a Failure document answered a request and send raised.
C2_Witness ==
    /\ calls # <<>>
    /\ Answered(calls[1])
    /\ Answer(calls[1]).tag = "Failure"
    /\ calls[1].raised = ProtocolMismatch
    /\ raised = ProtocolMismatch

\* Call c reached the check of the sync-id: a document with the expected tag.
TagAccepted(c) == Answered(c) /\ Answer(c).tag = c.elem.response_tag

\* The sync-id of the answer to call c is missing or is not the token of c.
SyncDiffers(c) ==
    \/ "sync-id" \notin DOMAIN Answer(c).attrib
    \/ Answer(c).attrib["sync-id"] # c.sync_id

\* The sync-id of call c is checked: protocol 1.2 and a session-scoped message.
SyncChecked(c) == c.protocol = VERSION_1_2 /\ c.elem.session

\* C3 as stated: under protocol 1.2 a session-scoped exchange whose response has
\* another sync-id than the token, or none, fails with SyncMismatch; under 1.1,
\* and for login, such a response is accepted.
C3_SyncMismatch ==
    \A i \in 1 .. Len(calls) :
        LET c == calls[i]
        IN  (TagAccepted(c) /\ SyncDiffers(c)) =>
                IF SyncChecked(c)
                THEN c.raised = SyncMismatch /\ c.returned = <<>>
                ELSE c.raised = "" /\ c.returned = <<Answer(c)>>

\* C3 as amended: under protocol 1.2 a session-scoped exchange whose response has
\* the expected tag fails with SyncMismatch when the response's sync-id is
\* another text than the token, and fails with KeyError when the response has no
\* sync-id; under 1.1, and for login, such a response is accepted.
C3_SyncCheck ==
    \A i \in 1 .. Len(calls) :
        LET c == calls[i]
        IN  (TagAccepted(c) /\ SyncDiffers(c)) =>
                IF SyncChecked(c)
                THEN /\ c.returned = <<>>
                     /\ c.raised = IF "sync-id" \in DOMAIN Answer(c).attrib
                                   THEN SyncMismatch ELSE "KeyError"
                ELSE c.raised = "" /\ c.returned = <<Answer(c)>>

\* C3, reached: under 1.2 the response echoed the token with a leading zero.
C3_Witness ==
    /\ calls # <<>>
    /\ TagAccepted(calls[1])
    /\ SyncChecked(calls[1])
    /\ "sync-id" \in DOMAIN Answer(calls[1]).attrib
    /\ Answer(calls[1]).attrib["sync-id"] = "0" \o calls[1].sync_id
    /\ calls[1].raised = SyncMismatch

\* Call c handed a LogoutRequest to the transport.
LogoutPosted(c) == c.posts # <<>> /\ c.posts[1].data.tag = "LogoutRequest"

\* C4: when the with statement was entered (login succeeded), __exit__ hands a
\* logout request to the transport, whether the body ended normally or raised.
C4_LogoutOnExit ==
    scope = "closed" =>
        /\ method = "__exit__"
        /\ \E i \in 1 .. Len(calls) : LogoutPosted(calls[i])

\* C4, reached: the body raised, and __exit__ posted a logout that succeeded.
C4_Witness ==
    /\ scope = "closed"
    /\ bodyError = ProtocolMismatch
    /\ calls # <<>>
    /\ LogoutPosted(calls[1])
    /\ calls[1].raised = ""

\* The latest method was a logout whose exchange succeeded.
LoggedOut == method \in {"logout", "__exit__"} /\ calls # <<>> /\ raised = ""

\* C5 as stated: after a logout exchange succeeded the client's session id is
\* empty again.
C5_LogoutClears == LoggedOut => session_id = None

\* C5 as amended: logout leaves the client's session id as it is; after a logout
\* exchange succeeded the client still holds the session id the logout request
\* carried.
C5_LogoutKeeps ==
    LoggedOut =>
        /\ session_id # None
        /\ session_id = calls[1].session_id
        /\ calls[1].posts[1].data.attrib["session-id"] = session_id

\* C5, reached: a logout succeeded and the client still holds s1.
C5_Witness == LoggedOut /\ method = "logout" /\ session_id = "s1"

\* The latest method was a login (called directly or by __enter__).
IsLogin(m) == m \in {"login", "__enter__"}

\* C6: a login that succeeds sets the session id to the session-id attribute of
\* its LoginResponse; a login that fails leaves the session id as it was.
C6_LoginSetsSession ==
    [][IsLogin(method') =>
          /\ Len(calls') = 1
          /\ IF raised' = ""
             THEN /\ calls'[1].returned # <<>>
                  /\ calls'[1].returned[1].tag = "LoginResponse"
                  /\ session_id' = calls'[1].returned[1].attrib["session-id"]
             ELSE session_id' = session_id]_vars

\* C6, reached: a login failed on the response tag and the client still holds s2.
C6_Witness ==
    /\ method = "login"
    /\ raised = ProtocolMismatch
    /\ session_id = "s2"

\* The entries of dict d whose value is not None.
NonNull(d) == [k \in {x \in DOMAIN d : d[x] # None} |-> d[k]]

\* C7: serializing a message yields an element whose attributes are the non-null
\* entries of attr_dict and whose children are the non-null entries of
\* inner_elements, and serialization succeeds (here: of every message _send
\* serialized for a client that holds a session id).
C7_NullsOmitted ==
    \A i \in 1 .. Len(calls) :
        LET c == calls[i]
        IN  c.session_id # None =>
                /\ c.data # <<>>
                /\ c.data[1].tag = c.elem.request_tag
                /\ c.data[1].attrib = NonNull(c.elem.attr_dict)
                /\ c.data[1].children = NonNull(c.elem.inner_elements)

C9_Envelope ==
    \A i \in 1 .. Len(calls) :
        LET c == calls[i]
        IN  c.posts # <<>> =>
                LET a == c.posts[1].data.attrib
                IN  IF c.elem.session
                    THEN /\ "session-id" \in DOMAIN a /\ a["session-id"] = session_id
                         /\ "sync-id" \in DOMAIN a /\ a["sync-id"] = c.sync_id
                         /\ \E n \in 1 .. 1000 : c.sync_id = str(n)
                    ELSE DOMAIN a = {"user-id", "password"}

\* C9, reached: a message that carried token 1 was sent again with token 1000.
C9_Witness ==
    /\ method = "_send"
    /\ calls[1].posts # <<>>
    /\ "sync-id" \in DOMAIN calls[1].given.attr_dict
    /\ calls[1].given.attr_dict["sync-id"] = "1"
    /\ calls[1].posts[1].data.attrib["sync-id"] = "1000"

\* C10: when the logout made by __exit__ fails, the with statement ends with
\* that failure, whether the body ended normally or raised, and __exit__ made
\* one logout only.
C10_LogoutFailureSurfaces ==
    (scope = "closed" /\ \E i \in 1 .. Len(calls) : calls[i].raised # "") =>
        /\ Len(calls) = 1
        /\ Len(calls[1].posts) <= 1
        /\ raised = calls[1].raised
        /\ scopeResult = calls[1].raised

\* C10, reached: the body raised on the sync-id, then the logout of __exit__
\* failed in the transport.
C10_Witness ==
    /\ scope = "closed"
    /\ bodyError = SyncMismatch
    /\ calls # <<>>
    /\ calls[1].raised = TransportFailure
    /\ scopeResult = TransportFailure

====
